---- MODULE Spec2Model ----
(***************************************************************************)
(* State-machine model of DatabaseStorage (server storage layer of the     *)
(* school administration backend): the students, attendance, behaviour and *)
(* detentions tables, the derived counters kept on each student row, and   *)
(* the dashboard rollups computed from the tables.                         *)
(*                                                                         *)
(* Spec      every storage method runs to completion before the next one   *)
(*           starts (one action per method).                               *)
(* SpecCrash recordAttendance / createBehaviour run one awaited database   *)
(*           statement at a time, one call at a time, and a call can fail  *)
(*           between two statements.                                       *)
(* SpecConc  the same statement-level steps with two calls in flight.      *)
(***************************************************************************)
EXTENDS Integers, Sequences, FiniteSets, TLC

VARIABLES students, attendance, behaviour, detentions, serial, today,
          response, inflight

vars == <<students, attendance, behaviour, detentions, serial, today,
          response, inflight>>

store == <<students, attendance, behaviour, detentions, serial>>

----------------------------------------------------------------------------
(* Bounds of the model *)

MaxSize == 3

(* Program constants *)

DefaultSessions == 188
\* getTutorGroupAttendance: the sessions possible for each member of a group
GroupSessions == 188
DetentionThreshold == 0 - 10

----------------------------------------------------------------------------
(* Input domains *)

\* the vocabulary of schema.ts, and the two literals createBehaviour tests
SchemaStatuses == {"PRESENT", "LATE", "ABSENT", "AUTH_ABSENT", "UNAUTH_ABSENT"}
GuardStatuses == {"ABSENT_UNAUTH", "ABSENT_AUTH"}
Statuses == SchemaStatuses \cup GuardStatuses
Points == {0 - 10, 0 - 1, 2}
DetentionStatuses == {"SCHEDULED", "ATTENDED", "MISSED"}

\* names are sequences of characters
FirstNames == {<<"A", "l">>, <<"b", "o">>}
LastNames == {<<"B", "a">>}
YearGroups == {0, 7}
TutorGroups == {"7A", "7B"}

\* the arguments of searchStudents: left out (<< >>) or given (<<value>>)
Queries == {<< >>, << << >> >>, <<<<"a">>>>, <<<<"L">>>>, <<<<"o", " ", "b">>>>, <<<<"_", "o">>>>}
YearGroupFilters == {<< >>} \cup {<<y>> : y \in YearGroups}
TutorGroupFilters == {<< >>, <<"">>} \cup {<<t>> : t \in TutorGroups}

\* the rows a caller submits for a new student; the counters are not part of
\* them (dateOfBirth and admissionDate, which no storage method reads, are
\* left out)
InsertStudent(firstNames, lastNames, yearGroups, tutorGroups) ==
  [firstName : firstNames, lastName : lastNames,
   yearGroup : yearGroups, tutorGroup : tutorGroups]

\* the enrolments of the specifications that do not look at names and groups
Enrolments == InsertStudent({<<"A", "l">>}, {<<"B", "a">>}, {7}, {"7A"})

\* the rows a caller submits; marks are dated on the current day, detentions
\* are scheduled for the current day or for a week later
InsertAttendance(ids, day) == [studentId : ids, date : {day}, status : Statuses]
InsertBehaviour(ids) == [studentId : ids, points : Points]
InsertDetention(ids, day) == [studentId : ids, date : {day, day + 7}]

----------------------------------------------------------------------------
(* Helpers *)

Max(a, b) == IF a >= b THEN a ELSE b

RECURSIVE SumPoints(_)
SumPoints(rows) ==
  IF rows = <<>> THEN 0 ELSE Head(rows).points + SumPoints(Tail(rows))

\* the counters of a new student row
NewStudent ==
  [attendanceSessionsPossible |-> DefaultSessions,
   attendanceSessionsPresent |-> DefaultSessions,
   behaviourPoints |-> 0]

\* the row stored for a submitted student: the counters take their column
\* defaults
StudentRow(insertStudent) == insertStudent @@ NewStudent

\* variant of PresentInc: only PRESENT counts as present
PresentIncLateAbsent(status) == IF status /= "PRESENT" THEN 0 - 1 ELSE 0

\* recordAttendance: the change applied to attendanceSessionsPresent
PresentInc(status) ==
  IF status /= "PRESENT" /\ status /= "LATE" THEN 0 - 1 ELSE 0

\* variant of PresentAfter: the decrement without the floor
PresentAfterNoFloor(student, status) ==
  student.attendanceSessionsPresent + PresentInc(status)

\* recordAttendance: the value written to attendanceSessionsPresent
PresentAfter(student, status) ==
  Max(0, student.attendanceSessionsPresent + PresentInc(status))

\* variant of NewPoints: the total floored at the detention threshold
NewPointsFloored(student, points) ==
  Max(DetentionThreshold, student.behaviourPoints + points)

\* createBehaviour: the value written to behaviourPoints
NewPoints(student, points) == student.behaviourPoints + points

\* createBehaviour: the rows read by the absence guard
TodayAttendance(att, studentId, day) ==
  SelectSeq(att, LAMBDA a : a.studentId = studentId /\ a.date = day)

\* createBehaviour: TRUE when the absence guard throws
AbsenceGuardThrows(att, record, day) ==
  /\ record.points > 0
  /\ LET todayAttendance == TodayAttendance(att, record.studentId, day)
     IN /\ todayAttendance /= <<>>
        /\ LET lastMark == todayAttendance[Len(todayAttendance)]
           IN lastMark.status = "ABSENT_UNAUTH" \/ lastMark.status = "ABSENT_AUTH"

\* createBehaviour: the detention trigger. The test is made, and its branch
\* holds a comment only: nothing is returned or emitted on either side
ThresholdSignal(newPoints) ==
  IF newPoints <= DetentionThreshold THEN FALSE ELSE FALSE

\* what the caller of a storage method observes: whether the call returned
\* or threw, and whether it raised the detention-trigger signal
Reply(ok, signal) == [ok |-> ok, signal |-> signal]

\* the marks recorded before the modelled days (see InitNearFloor)
HistoryMarks == DefaultSessions - 1

\* the size of a run so far: the students enrolled, the event rows inserted
\* and the midnights passed on the modelled days, from the id sequences and
\* the clock
Size ==
  LET marks == IF serial.attendance >= HistoryMarks
               THEN serial.attendance - HistoryMarks ELSE serial.attendance
  IN serial.students + marks + serial.behaviour + serial.detentions + (today - 1)

\* the ids a caller may name: those issued so far and the next one
KnownIds == 1..(serial.students + 1)

----------------------------------------------------------------------------
(* Initial states *)

\* a store in which student 1 has been marked absent n times on day 0, before
\* the modelled days
AbsentHistory(n) ==
  [i \in 1..n |-> [id |-> i, studentId |-> 1, date |-> 0,
                   status |-> "ABSENT"]]

InitEmpty ==
  /\ students = << >>
  /\ attendance = << >>
  /\ serial = [students |-> 0, attendance |-> 0, behaviour |-> 0, detentions |-> 0]

InitNearFloor ==
  /\ \E insertStudent \in Enrolments :
       students = (1 :> [StudentRow(insertStudent) EXCEPT
                           !.attendanceSessionsPresent = 1])
  /\ attendance = AbsentHistory(HistoryMarks)
  /\ serial = [students |-> 1, attendance |-> HistoryMarks,
               behaviour |-> 0, detentions |-> 0]

Init ==
  /\ InitEmpty \/ InitNearFloor
  /\ behaviour = << >>
  /\ detentions = << >>
  /\ today = 1
  /\ response = Reply(TRUE, FALSE)
  /\ inflight = << >>

----------------------------------------------------------------------------
(* Storage methods, each run to completion *)

createStudent(insertStudent) ==
  /\ Size < MaxSize
  /\ LET id == serial.students + 1
     IN /\ students' = (id :> StudentRow(insertStudent)) @@ students
        /\ serial' = [serial EXCEPT !.students = id]
        /\ response' = Reply(TRUE, FALSE)
  /\ UNCHANGED <<attendance, behaviour, detentions, today, inflight>>

recordAttendance(record) ==
  /\ Size < MaxSize
  /\ LET id == serial.attendance + 1
     IN /\ serial' = [serial EXCEPT !.attendance = id]
        /\ attendance' = Append(attendance, [id |-> id] @@ record)
  /\ students' =
       IF record.studentId \in DOMAIN students
       THEN [students EXCEPT ![record.studentId].attendanceSessionsPresent =
               PresentAfter(students[record.studentId], record.status)]
       ELSE students
  /\ response' = Reply(TRUE, FALSE)
  /\ UNCHANGED <<behaviour, detentions, today, inflight>>

createBehaviourRejected(record) ==
  /\ AbsenceGuardThrows(attendance, record, today)
  /\ response' = Reply(FALSE, FALSE)
  /\ UNCHANGED <<store, today, inflight>>

createBehaviour(record) ==
  /\ Size < MaxSize
  /\ ~AbsenceGuardThrows(attendance, record, today)
  /\ LET id == serial.behaviour + 1
     IN /\ serial' = [serial EXCEPT !.behaviour = id]
        /\ behaviour' = Append(behaviour, [id |-> id, date |-> today] @@ record)
  /\ IF record.studentId \in DOMAIN students
     THEN LET newPoints == NewPoints(students[record.studentId], record.points)
          IN /\ students' = [students EXCEPT
                               ![record.studentId].behaviourPoints = newPoints]
             /\ response' = Reply(TRUE, ThresholdSignal(newPoints))
     ELSE /\ students' = students
          /\ response' = Reply(TRUE, FALSE)
  /\ UNCHANGED <<attendance, detentions, today, inflight>>

createDetention(record) ==
  /\ Size < MaxSize
  /\ LET id == serial.detentions + 1
     IN /\ detentions' = Append(detentions,
                                [id |-> id, status |-> "SCHEDULED"] @@ record)
        /\ serial' = [serial EXCEPT !.detentions = id]
  /\ response' = Reply(TRUE, FALSE)
  /\ UNCHANGED <<students, attendance, behaviour, today, inflight>>

\* updateDetention with a patch of the status column
updateDetention(id, status) ==
  /\ \E i \in 1..Len(detentions) : detentions[i].id = id
  /\ detentions' = [i \in 1..Len(detentions) |->
                      IF detentions[i].id = id
                      THEN [detentions[i] EXCEPT !.status = status]
                      ELSE detentions[i]]
  /\ response' = Reply(TRUE, FALSE)
  /\ UNCHANGED <<students, attendance, behaviour, serial, today, inflight>>

\* variant of DeleteOwned: the cascade forgotten
DeleteOwnedNone(table, id) == table

\* the table without the rows whose studentId is id
DeleteOwned(table, id) == SelectSeq(table, LAMBDA r : r.studentId /= id)

\* the students table without row id
DeleteRow(rows, id) == [s \in DOMAIN rows \ {id} |-> rows[s]]

deleteStudent(id) ==
  /\ UNCHANGED <<serial, today, inflight>>
  /\ students' = DeleteRow(students, id)
  /\ detentions' = DeleteOwned(detentions, id)
  /\ behaviour' = DeleteOwned(behaviour, id)
  /\ attendance' = DeleteOwned(attendance, id)
  /\ response' = Reply(TRUE, FALSE)

\* the wall clock passes midnight
nextDay ==
  /\ Size < MaxSize
  /\ today' = today + 1
  /\ UNCHANGED <<store, response, inflight>>

Next ==
  \/ \E insertStudent \in Enrolments : createStudent(insertStudent)
  \/ \E record \in InsertAttendance(KnownIds, today) : recordAttendance(record)
  \/ \E record \in InsertBehaviour(KnownIds) : createBehaviourRejected(record)
  \/ \E record \in InsertBehaviour(KnownIds) : createBehaviour(record)
  \/ \E record \in InsertDetention(KnownIds, today) : createDetention(record)
  \/ \E id \in 1..MaxSize, status \in DetentionStatuses :
       updateDetention(id, status)
  \/ \E id \in KnownIds : deleteStudent(id)
  \/ nextDay

Spec == Init /\ [][Next]_vars

----------------------------------------------------------------------------
(* The roster: students enrolled with their names, year groups and tutor    *)
(* groups, marked and deleted                                                *)

NextRoster ==
  \/ \E insertStudent \in InsertStudent(FirstNames, LastNames, YearGroups, TutorGroups) :
       createStudent(insertStudent)
  \/ \E record \in InsertAttendance(KnownIds, today) : recordAttendance(record)
  \/ \E id \in KnownIds : deleteStudent(id)

SpecRoster == Init /\ [][NextRoster]_vars

----------------------------------------------------------------------------
(* recordAttendance and createBehaviour, one awaited statement per step.    *)
(* A call in flight holds its argument, the statement it runs next and the  *)
(* student row it has read. Calls are made for existing students.           *)

Idle == [op |-> "idle"]
Call(op, record, pc, student) ==
  [op |-> op, record |-> record, pc |-> pc, student |-> student]

InitCalls(n) ==
  /\ InitEmpty
  /\ behaviour = << >>
  /\ detentions = << >>
  /\ today = 1
  /\ response = Reply(TRUE, FALSE)
  /\ inflight = [k \in 1..n |-> Idle]

\* recordAttendance is called and runs its insert
insertAttendance(k, record) ==
  /\ inflight[k] = Idle
  /\ Size < MaxSize
  /\ record.studentId \in DOMAIN students
  /\ LET id == serial.attendance + 1
     IN /\ attendance' = Append(attendance, [id |-> id] @@ record)
        /\ serial' = [serial EXCEPT !.attendance = id]
  /\ inflight' = [inflight EXCEPT
                    ![k] = Call("recordAttendance", record, "getStudent", << >>)]
  /\ UNCHANGED <<students, behaviour, detentions, today, response>>

\* createBehaviour is called and runs its absence guard
guardBehaviour(k, record) ==
  /\ inflight[k] = Idle
  /\ Size < MaxSize
  /\ record.studentId \in DOMAIN students
  /\ IF AbsenceGuardThrows(attendance, record, today)
     THEN /\ response' = Reply(FALSE, FALSE)
          /\ UNCHANGED inflight
     ELSE /\ inflight' = [inflight EXCEPT
                            ![k] = Call("createBehaviour", record, "insert", << >>)]
          /\ UNCHANGED response
  /\ UNCHANGED <<store, today>>

insertBehaviour(k) ==
  /\ inflight[k].op = "createBehaviour"
  /\ inflight[k].pc = "insert"
  /\ LET id == serial.behaviour + 1
     IN /\ behaviour' = Append(behaviour,
                               [id |-> id, date |-> today] @@ inflight[k].record)
        /\ serial' = [serial EXCEPT !.behaviour = id]
  /\ inflight' = [inflight EXCEPT ![k].pc = "getStudent"]
  /\ UNCHANGED <<students, attendance, detentions, today, response>>

\* getStudent: the row read, or nothing; without a row the call returns
getStudent(k) ==
  /\ inflight[k].op /= "idle"
  /\ inflight[k].pc = "getStudent"
  /\ LET id == inflight[k].record.studentId
     IN IF id \in DOMAIN students
        THEN /\ inflight' = [inflight EXCEPT ![k].pc = "update",
                                              ![k].student = <<students[id]>>]
             /\ UNCHANGED response
        ELSE /\ inflight' = [inflight EXCEPT ![k] = Idle]
             /\ response' = Reply(TRUE, FALSE)
  /\ UNCHANGED <<store, today>>

\* the counter computed from the row read is written, and the call returns
updateStudent(k) ==
  /\ inflight[k].op /= "idle"
  /\ inflight[k].pc = "update"
  /\ LET record == inflight[k].record
         id == record.studentId
         student == inflight[k].student[1]
     IN IF inflight[k].op = "recordAttendance"
        THEN /\ students' =
                  IF id \in DOMAIN students
                  THEN [students EXCEPT ![id].attendanceSessionsPresent =
                          PresentAfter(student, record.status)]
                  ELSE students
             /\ response' = Reply(TRUE, FALSE)
        ELSE LET newPoints == NewPoints(student, record.points)
             IN /\ students' =
                     IF id \in DOMAIN students
                     THEN [students EXCEPT ![id].behaviourPoints = newPoints]
                     ELSE students
                /\ response' = Reply(TRUE, ThresholdSignal(newPoints))
  /\ inflight' = [inflight EXCEPT ![k] = Idle]
  /\ UNCHANGED <<attendance, behaviour, detentions, serial, today>>

\* a statement after the insert throws, or the process dies: the call ends
\* there, and nothing it has written is undone
fail(k) ==
  /\ inflight[k].op /= "idle"
  /\ inflight[k].pc \in {"getStudent", "update"}
  /\ inflight' = [inflight EXCEPT ![k] = Idle]
  /\ response' = Reply(FALSE, FALSE)
  /\ UNCHANGED <<store, today>>

enrol ==
  /\ \E insertStudent \in Enrolments : createStudent(insertStudent)
  /\ UNCHANGED inflight

NextCalls(n) ==
  \/ enrol
  \/ \E k \in 1..n, record \in InsertAttendance(KnownIds, today) : insertAttendance(k, record)
  \/ \E k \in 1..n, record \in InsertBehaviour(KnownIds) : guardBehaviour(k, record)
  \/ \E k \in 1..n : insertBehaviour(k)
  \/ \E k \in 1..n : getStudent(k)
  \/ \E k \in 1..n : updateStudent(k)

NextCrash == NextCalls(1) \/ fail(1)

SpecCrash == InitCalls(1) /\ [][NextCrash]_vars

NextConc == NextCalls(2)

SpecConc == InitCalls(2) /\ [][NextConc]_vars

----------------------------------------------------------------------------
(* Rollups, computed from the current tables *)

\* JavaScript values a rollup can return
Num(n) == [type |-> "number", value |-> n]
Text(n) == [type |-> "string", value |-> n]
Null == [type |-> "null", value |-> 0]

\* variant of OrZero: the || 0 default forgotten
OrZeroForgotten(v) == v

\* v || 0 : null and the number 0 are falsy, numeric text is not
OrZero(v) ==
  IF v.type = "null" \/ (v.type = "number" /\ v.value = 0) THEN Num(0) ELSE v

\* Math.round(num / den * 100) for num >= 0, den > 0: halves round up
MathRoundPercent(num, den) == Num((200 * num + den) \div (2 * den))

\* sum(points) over the selected rows: NULL over no rows, else a bigint,
\* which the driver hands over as text
SqlSum(rows) == IF rows = << >> THEN Null ELSE Text(SumPoints(rows))

getStudents == DOMAIN students

getAttendancePercentageToday ==
  LET allStudents == getStudents
      present == SelectSeq(attendance,
                       LAMBDA a : a.date = today /\ a.status \in {"PRESENT", "LATE"})
  IN IF Cardinality(allStudents) = 0
     THEN Num(0)
     ELSE OrZero(MathRoundPercent(Len(present), Cardinality(allStudents)))

getBehaviourPointsToday ==
  OrZero(SqlSum(SelectSeq(behaviour, LAMBDA b : b.date >= today)))

getDetentionsThisWeek == Num(Len(detentions))

getDashboardStats ==
  [totalStudents |-> Num(Cardinality(getStudents)),
   attendanceToday |-> getAttendancePercentageToday,
   behaviourPointsToday |-> getBehaviourPointsToday,
   detentionsThisWeek |-> getDetentionsThisWeek]

\* the ids of a set of students, highest first
RECURSIVE DescId(_)
DescId(ids) ==
  IF ids = {} THEN << >>
  ELSE LET top == CHOOSE x \in ids : \A y \in ids : y <= x
       IN <<top>> \o DescId(ids \ {top})

\* a selected student row, with its id column
Student(id) == [id |-> id] @@ students[id]

\* select * from students order by id desc
getStudentsDesc ==
  LET ids == DescId(getStudents)
  IN [i \in 1..Len(ids) |-> Student(ids[i])]

\* Array.from(new Set(seq)): each value once, in order of first occurrence
RECURSIVE Distinct(_)
Distinct(seq) ==
  IF seq = << >> THEN << >>
  ELSE LET front == Distinct(SubSeq(seq, 1, Len(seq) - 1))
           last == seq[Len(seq)]
       IN IF \E i \in DOMAIN front : front[i] = last
          THEN front ELSE Append(front, last)

\* variant of GroupStudents: the filter on the group forgotten
GroupStudentsAll(allStudents, group) == allStudents

\* getTutorGroupAttendance: the members of a group
GroupStudents(allStudents, group) ==
  SelectSeq(allStudents, LAMBDA s : s.tutorGroup = group)

\* getTutorGroupAttendance: the reduce over a group's members
RECURSIVE TotalPresent(_)
TotalPresent(groupStudents) ==
  IF groupStudents = << >> THEN 0
  ELSE TotalPresent(SubSeq(groupStudents, 1, Len(groupStudents) - 1))
       + OrZero(Num(groupStudents[Len(groupStudents)].attendanceSessionsPresent)).value

getTutorGroupAttendance ==
  LET allStudents == getStudentsDesc
      groups == Distinct([i \in DOMAIN allStudents |-> allStudents[i].tutorGroup])
      Entry(group) ==
        LET groupStudents == GroupStudents(allStudents, group)
            totalPossible == Len(groupStudents) * GroupSessions
            totalPresent == TotalPresent(groupStudents)
        IN [name |-> group,
            present |-> IF totalPossible > 0
                        THEN MathRoundPercent(totalPresent, totalPossible)
                        ELSE Num(0)]
  IN [i \in DOMAIN groups |-> Entry(groups[i])]

\* toLowerCase and SQL lower(), on the letters in use
LowerChar(c) == CASE c = "A" -> "a" [] c = "B" -> "b" [] c = "L" -> "l" [] OTHER -> c
ToLowerCase(str) == [i \in DOMAIN str |-> LowerChar(str[i])]

\* text LIKE pattern: % stands for any run of characters, _ for any one
RECURSIVE Like(_, _)
Like(str, pattern) ==
  IF pattern = << >> THEN str = << >>
  ELSE IF Head(pattern) = "%"
       THEN \/ Like(str, Tail(pattern))
            \/ str /= << >> /\ Like(Tail(str), pattern)
       ELSE /\ str /= << >>
            /\ Head(pattern) = "_" \/ Head(pattern) = Head(str)
            /\ Like(Tail(str), Tail(pattern))

\* an optional argument is << >> when left out and <<v>> when given; the
\* conditions test the argument itself, so an empty string and 0 do not pass
Given(arg, falsy) == arg /= << >> /\ arg[1] /= falsy

searchStudents(query, yearGroup, tutorGroup) ==
  LET conditions ==
        (IF Given(query, << >>) THEN {"query"} ELSE {})
        \cup (IF Given(yearGroup, 0) THEN {"yearGroup"} ELSE {})
        \cup (IF Given(tutorGroup, "") THEN {"tutorGroup"} ELSE {})
      lowerQuery == <<"%">> \o ToLowerCase(query[1]) \o <<"%">>
  IN IF conditions = {}
     THEN getStudentsDesc
     ELSE SelectSeq(getStudentsDesc,
            LAMBDA s :
              /\ "query" \in conditions =>
                   Like(ToLowerCase(s.firstName \o <<" ">> \o s.lastName), lowerQuery)
              /\ "yearGroup" \in conditions => s.yearGroup = yearGroup[1]
              /\ "tutorGroup" \in conditions => s.tutorGroup = tutorGroup[1])

----------------------------------------------------------------------------
(* Properties of the storage methods run to completion (Spec) *)

\* the rows of a table owned by one student
RowsOf(table, id) == SelectSeq(table, LAMBDA r : r.studentId = id)

AbsentMarks(id) ==
  Len(SelectSeq(attendance,
                LAMBDA a : a.studentId = id /\ a.status \notin {"PRESENT", "LATE"}))

\* C1: in every reachable state every student has
\* 0 <= attendanceSessionsPresent <= attendanceSessionsPossible.
C1_CountersInRange ==
  \A s \in DOMAIN students :
    /\ 0 <= students[s].attendanceSessionsPresent
    /\ students[s].attendanceSessionsPresent <= students[s].attendanceSessionsPossible

\* a student marked absent more often than there are sessions, held at 0
C1_Witness ==
  \E s \in DOMAIN students :
    /\ students[s].attendanceSessionsPresent = 0
    /\ AbsentMarks(s) > students[s].attendanceSessionsPossible

\* C2: recordAttendance for an existing student leaves attendanceSessionsPresent
\* unchanged for PRESENT and LATE and sets it to max(0, old - 1) for any other
\* status; nothing else on any student row changes.
C2_AttendanceUpdateRule ==
  [][\A record \in InsertAttendance(KnownIds, today) :
       (recordAttendance(record) /\ record.studentId \in DOMAIN students) =>
         LET old == students[record.studentId].attendanceSessionsPresent
             new == IF record.status \in {"PRESENT", "LATE"} THEN old
                    ELSE IF old = 0 THEN 0 ELSE old - 1
         IN students' = [students EXCEPT
                           ![record.studentId].attendanceSessionsPresent = new]]_vars

\* a student with a LATE mark and an absence, one session below the default
C2_Witness ==
  \E s \in DOMAIN students :
    /\ \E i \in 1..Len(attendance) :
         attendance[i].studentId = s /\ attendance[i].status = "LATE"
    /\ AbsentMarks(s) = 1
    /\ students[s].attendanceSessionsPresent = DefaultSessions - 1

\* the points of the rows at the given positions, in that order
PointsAt(rows, order) == [i \in 1..Len(order) |-> rows[order[i]].points]

\* the orders in which n calls can be made
Orders(n) == {o \in [1..n -> 1..n] : \A i, j \in 1..n : o[i] = o[j] => i = j}

\* the total createBehaviour reaches from a start value over a list of awards
RECURSIVE Accumulate(_, _)
Accumulate(start, points) ==
  IF points = << >> THEN start
  ELSE Accumulate(NewPoints([behaviourPoints |-> start], Head(points)), Tail(points))

RECURSIVE Sum(_)
Sum(points) == IF points = << >> THEN 0 ELSE Head(points) + Sum(Tail(points))

\* C3: each accepted createBehaviour for an existing student adds exactly its
\* points to behaviourPoints and changes no other student, so a list of calls
\* adds the sum of its points; and the total reached over the awards logged
\* for a student is that sum in whichever order they are applied.
C3_PointsAccumulate ==
  /\ [][\A record \in InsertBehaviour(KnownIds) :
          (createBehaviour(record) /\ record.studentId \in DOMAIN students) =>
            students' = [students EXCEPT ![record.studentId].behaviourPoints =
                           students[record.studentId].behaviourPoints + record.points]]_vars
  /\ [](\A s \in KnownIds, start \in {0, DetentionThreshold} :
          LET rows == RowsOf(behaviour, s)
          IN \A o \in Orders(Len(rows)) :
               Accumulate(start, PointsAt(rows, o)) = start + Sum(PointsAt(rows, o)))

\* a student whose total, -11, is the sum of two awards and lies below the
\* detention threshold
C3_Witness ==
  \E s \in DOMAIN students :
    /\ Len(RowsOf(behaviour, s)) = 2
    /\ students[s].behaviourPoints = SumPoints(RowsOf(behaviour, s))
    /\ students[s].behaviourPoints < DetentionThreshold

\* the status of the student's most recent mark dated today denotes absence
AbsentToday(record) ==
  LET marks == SelectSeq(attendance,
                         LAMBDA a : a.studentId = record.studentId /\ a.date = today)
  IN /\ marks /= << >>
     /\ marks[Len(marks)].status \in {"ABSENT", "AUTH_ABSENT", "UNAUTH_ABSENT"}

\* C4: a createBehaviour with points > 0 for a student whose most recent mark
\* of today is ABSENT, AUTH_ABSENT or UNAUTH_ABSENT is rejected and changes
\* no stored state.
C4_AbsentAwardRejected ==
  [][\A record \in InsertBehaviour(KnownIds) :
       (record.points > 0 /\ AbsentToday(record)) =>
         /\ ~createBehaviour(record)
         /\ createBehaviourRejected(record) => UNCHANGED store]_vars

\* C5: a createBehaviour that brings the student's total to -10 or below
\* raises a signal its caller can observe.
C5_ThresholdSignalled ==
  [][\A record \in InsertBehaviour(KnownIds) :
       ( /\ createBehaviour(record)
         /\ record.studentId \in DOMAIN students
         /\ students'[record.studentId].behaviourPoints <= DetentionThreshold )
       => response'.signal]_vars

\* C6: after deleteStudent(id) no attendance, behaviour or detention row of
\* id is left, the student row is gone, and the rows of every other student
\* are as they were.
C6_DeleteCascades ==
  [][\A id \in KnownIds :
       deleteStudent(id) =>
         /\ RowsOf(attendance', id) = << >>
         /\ RowsOf(behaviour', id) = << >>
         /\ RowsOf(detentions', id) = << >>
         /\ id \notin DOMAIN students'
         /\ DOMAIN students' = DOMAIN students \ {id}
         /\ \A o \in KnownIds \ {id} :
              /\ RowsOf(attendance', o) = RowsOf(attendance, o)
              /\ RowsOf(behaviour', o) = RowsOf(behaviour, o)
              /\ RowsOf(detentions', o) = RowsOf(detentions, o)
              /\ o \in DOMAIN students => students'[o] = students[o]]_vars

\* a deleted student none of whose rows is left, rows having been removed,
\* beside another student
C6_Witness ==
  \E id \in 1..serial.students :
    /\ id \notin DOMAIN students
    /\ RowsOf(attendance, id) = << >>
    /\ RowsOf(behaviour, id) = << >>
    /\ RowsOf(detentions, id) = << >>
    /\ Len(behaviour) + Len(detentions) < serial.behaviour + serial.detentions
    /\ DOMAIN students /= {}

\* the students with a PRESENT or LATE mark dated today
PresentToday ==
  {s \in DOMAIN students :
     \E i \in 1..Len(attendance) :
       /\ attendance[i].studentId = s
       /\ attendance[i].date = today
       /\ attendance[i].status \in {"PRESENT", "LATE"}}

\* C9: getAttendancePercentageToday is round(100 * k / n) for k the number
\* of distinct students with a PRESENT or LATE mark today and n the number of
\* students, 0 when n = 0, and so lies in 0..100.
\* (stated for the stores in which every mark belongs to an existing student)
C9_AttendancePercentage ==
  LET n == Cardinality(DOMAIN students)
      k == Cardinality(PresentToday)
      result == getAttendancePercentageToday
  IN (\A i \in 1..Len(attendance) : attendance[i].studentId \in DOMAIN students) =>
       /\ result.type = "number"
       /\ result.value \in 0..100
       /\ result.value = IF n = 0 THEN 0 ELSE (200 * k + n) \div (2 * n)

StoreEmpty ==
  /\ DOMAIN students = {}
  /\ attendance = << >>
  /\ behaviour = << >>
  /\ detentions = << >>

\* C10: on a store without students, marks, behaviour and detention rows
\* getDashboardStats returns the number 0 in each of its four fields.
C10_EmptyDashboard ==
  StoreEmpty =>
    getDashboardStats = [totalStudents |-> Num(0), attendanceToday |-> Num(0),
                         behaviourPointsToday |-> Num(0),
                         detentionsThisWeek |-> Num(0)]

\* a store emptied again after a student and rows had been stored
C10_Witness ==
  /\ StoreEmpty
  /\ serial.students > 0
  /\ serial.behaviour > 0

\* C14: in every reachable state the studentId of every attendance record
\* is the id of an existing student (recordAttendance for a studentId without
\* a student stores no record)
C14_AttendanceRefersToStudent ==
  \A i \in DOMAIN attendance : attendance[i].studentId \in DOMAIN students

\* the calendar week of a day, day 1 being a Monday
WeekOf(day) == (day - 1) \div 7

DetentionsInWeekOf(day) ==
  Len(SelectSeq(detentions, LAMBDA d : WeekOf(d.date) = WeekOf(day)))

\* C12: getDetentionsThisWeek, and detentionsThisWeek of getDashboardStats,
\* is the number of detentions whose date falls within the calendar week of
\* the current day
C12_DetentionsThisWeek ==
  /\ getDetentionsThisWeek = Num(DetentionsInWeekOf(today))
  /\ getDashboardStats.detentionsThisWeek = Num(DetentionsInWeekOf(today))

----------------------------------------------------------------------------
(* Properties of the calls run statement by statement *)

\* each student's counters are what the logged events of the student give
CountersMatchLog ==
  \A s \in DOMAIN students :
    /\ students[s].behaviourPoints = SumPoints(RowsOf(behaviour, s))
    /\ students[s].attendanceSessionsPresent = Max(0, DefaultSessions - AbsentMarks(s))

\* the same, the attendance counter being looked at only for the students
\* all of whose marks are absences
CountersReflectEvents ==
  \A s \in DOMAIN students :
    /\ students[s].behaviourPoints = SumPoints(RowsOf(behaviour, s))
    /\ AbsentMarks(s) = Len(RowsOf(attendance, s)) =>
         students[s].attendanceSessionsPresent = Max(0, DefaultSessions - AbsentMarks(s))

\* C7: when recordAttendance or createBehaviour fails between its insert and
\* its counter update, the store is not left holding the event with the
\* counter at its old value (SpecCrash: one call at a time).
C7_AllOrNothing ==
  [][fail(1) => CountersMatchLog']_vars

\* C8: once two concurrent calls for the same student have both returned,
\* the student's counters reflect both events (SpecConc: two calls in flight).
C8_NoLostUpdate ==
  (\A k \in DOMAIN inflight : inflight[k] = Idle) => CountersReflectEvents

----------------------------------------------------------------------------
(* Properties of the roster *)

RECURSIVE PresentOf(_)
PresentOf(ids) ==
  IF ids = {} THEN 0
  ELSE LET id == CHOOSE x \in ids : TRUE
       IN students[id].attendanceSessionsPresent + PresentOf(ids \ {id})

Substring(str, text) ==
  \E i \in 0..(Len(text) - Len(str)) : SubSeq(text, i + 1, i + Len(str)) = str

\* the student satisfies every filter that was given
Satisfies(id, query, yearGroup, tutorGroup) ==
  /\ query /= << >> =>
       Substring(ToLowerCase(query[1]),
                 ToLowerCase(students[id].firstName \o <<" ">> \o students[id].lastName))
  /\ yearGroup /= << >> => students[id].yearGroup = yearGroup[1]
  /\ tutorGroup /= << >> => students[id].tutorGroup = tutorGroup[1]

\* C13: searchStudents returns exactly the students that satisfy every
\* given filter (the query a case-insensitive substring of firstName, a
\* space and lastName; yearGroup and tutorGroup equal), for every given value
\* including yearGroup 0, all students when no filter is given, ordered by
\* id descending
C13_SearchStudents ==
  \A query \in Queries, yearGroup \in YearGroupFilters, tutorGroup \in TutorGroupFilters :
    LET ids == DescId({id \in DOMAIN students :
                         Satisfies(id, query, yearGroup, tutorGroup)})
    IN searchStudents(query, yearGroup, tutorGroup)
         = [i \in 1..Len(ids) |-> Student(ids[i])]

====
